---- MODULE Spec2Model ----
(***************************************************************************)
(* The command gateway of mcpserver: AgentManager (src/src/agent.py).      *)
(* Texts (command lines, paths, tokens) are tuples of one-character        *)
(* strings, so that shlex.split, str.replace, str.startswith and           *)
(* os.path.abspath are computed character by character as Python does.     *)
(***************************************************************************)
EXTENDS Integers, Sequences, FiniteSets, TLC

(***************************************************************************)
(* Bounds of the model                                                     *)
(***************************************************************************)
\* the most argument chunks a caller's command line carries after its base
MaxArgs == 2
\* the most direct validate_command calls made on one command object
MaxValidations == 2

\* the tasks the event loop is given
MaxTasks == 2

\* the messages with suggestion buttons the bot sends
MaxMessages == 2
\* the button presses the bot executes
MaxPresses == 2

(***************************************************************************)
(* AgentManager.__init__: the registries                                   *)
(***************************************************************************)
projects ==
  [ name \in {"selfi-bot", "selfi-miniapp"} |->
      IF name = "selfi-bot"
      THEN [ directory |-> <<"/", "v", "a", "r", "/", "w", "w", "w", "/", "s", "e", "l", "f", "i", "-", "d", "e", "v", "/", "b", "o", "t">>,
             pm2_name |-> <<"s", "e", "l", "f", "i", "-", "b", "o", "t">>,
             config_file |-> <<"c", "o", "n", "f", "i", "g", ".", "j", "s">> ]
      ELSE [ directory |-> <<"/", "v", "a", "r", "/", "w", "w", "w", "/", "s", "e", "l", "f", "i", "-", "d", "e", "v", "/", "m", "i", "n", "i", "a", "p", "p">>,
             pm2_name |-> <<"s", "e", "l", "f", "i", "-", "m", "i", "n", "i", "a", "p", "p">>,
             config_file |-> << >> ] ]

allowed_commands ==
  [ t \in {"project", "shell"} |->
      IF t = "project"
      THEN {"deploy", "update", "rollback", "restart", "logs", "status", "config"}
      ELSE {"execute"} ]

allowed_shell_commands ==
     (<<"l", "s">> :> [ path |-> <<"/", "b", "i", "n", "/", "l", "s">>,
                args |-> { <<"-", "l">>, <<"-", "a">>, <<"-", "l", "a">>, <<"-", "a", "l">>, <<"-", "-", "c", "o", "l", "o", "r", "=", "a", "u", "t", "o">> } ])
  @@ (<<"c", "d">> :> [ path |-> <<"c", "d">>, args |-> {} ])
  @@ (<<"c", "a", "t">> :> [ path |-> <<"/", "b", "i", "n", "/", "c", "a", "t">>, args |-> {} ])
  @@ (<<"g", "r", "e", "p">> :> [ path |-> <<"/", "b", "i", "n", "/", "g", "r", "e", "p">>,
                  args |-> { <<"-", "i">>, <<"-", "n">>, <<"-", "-", "c", "o", "l", "o", "r", "=", "a", "u", "t", "o">> } ])
  @@ (<<"g", "i", "t">> :> [ path |-> <<"/", "u", "s", "r", "/", "b", "i", "n", "/", "g", "i", "t">>,
                 args |-> { <<"p", "u", "l", "l">>, <<"s", "t", "a", "t", "u", "s">>, <<"l", "o", "g">>, <<"b", "r", "a", "n", "c", "h">>, <<"c", "h", "e", "c", "k", "o", "u", "t">>, <<"f", "e", "t", "c", "h">> } ])
  @@ (<<"n", "p", "m">> :> [ path |-> <<"/", "u", "s", "r", "/", "b", "i", "n", "/", "n", "p", "m">>,
                 args |-> { <<"i", "n", "s", "t", "a", "l", "l">>, <<"b", "u", "i", "l", "d">>, <<"r", "u", "n">>, <<"s", "t", "a", "r", "t">>, <<"t", "e", "s", "t">>, <<"c", "i">> } ])
  @@ (<<"p", "m", "2">> :> [ path |-> <<"/", "u", "s", "r", "/", "l", "o", "c", "a", "l", "/", "b", "i", "n", "/", "p", "m", "2">>,
                 args |-> { <<"l", "i", "s", "t">>, <<"s", "h", "o", "w">>, <<"r", "e", "s", "t", "a", "r", "t">>, <<"r", "e", "l", "o", "a", "d">>, <<"s", "t", "o", "p">>, <<"d", "e", "l", "e", "t", "e">>, <<"l", "o", "g", "s">>, <<"s", "t", "a", "t", "u", "s">>, <<"s", "a", "v", "e">> } ])

safe_directories ==
  << <<"/", "v", "a", "r", "/", "w", "w", "w", "/", "m", "c", "p", "s", "e", "r", "v", "e", "r">>,
     <<"/", "v", "a", "r", "/", "w", "w", "w", "/", "m", "c", "p", "s", "e", "r", "v", "e", "r", "/", "e", "x", "a", "m", "p", "l", "e", "s">>,
     <<"/", "v", "a", "r", "/", "w", "w", "w", "/", "m", "c", "p", "s", "e", "r", "v", "e", "r", "/", "s", "r", "c">>,
     <<"/", "v", "a", "r", "/", "w", "w", "w", "/", "s", "e", "l", "f", "i", "-", "d", "e", "v", "/", "b", "o", "t">>,
     <<"/", "v", "a", "r", "/", "w", "w", "w", "/", "s", "e", "l", "f", "i", "-", "d", "e", "v", "/", "m", "i", "n", "i", "a", "p", "p">> >>

log_directories ==
  << <<"/", "v", "a", "r", "/", "w", "w", "w", "/", "m", "c", "p", "s", "e", "r", "v", "e", "r", "/", "l", "o", "g", "s">>,
     <<"/", "v", "a", "r", "/", "l", "o", "g", "/", "n", "g", "i", "n", "x">>,
     <<"~", "/", ".", "p", "m", "2", "/", "l", "o", "g", "s">>,
     <<"/", "v", "a", "r", "/", "w", "w", "w", "/", "s", "e", "l", "f", "i", "-", "d", "e", "v", "/", "b", "o", "t", "/", "l", "o", "g", "s">>,
     <<"/", "v", "a", "r", "/", "w", "w", "w", "/", "s", "e", "l", "f", "i", "-", "d", "e", "v", "/", "m", "i", "n", "i", "a", "p", "p", "/", "l", "o", "g", "s">> >>

\* the working directory every raw shell subprocess is given (subprocess.run cwd=)
shell_cwd == <<"/", "v", "a", "r", "/", "w", "w", "w", "/", "m", "c", "p", "s", "e", "r", "v", "e", "r">>

\* the home directory os.path.expanduser substitutes for a leading "~"
HOME == <<"/", "r", "o", "o", "t">>

\* os.getcwd() of the gateway process, which os.path.abspath joins relative paths to
getcwd == <<"/", "v", "a", "r", "/", "w", "w", "w", "/", "m", "c", "p", "s", "e", "r", "v", "e", "r">>

(***************************************************************************)
(* Python's string operations                                              *)
(***************************************************************************)
\* str.startswith
StartsWith(s, p) == Len(p) <= Len(s) /\ SubSeq(s, 1, Len(p)) = p

\* str.find from index i: the least index at which sub occurs in s, 0 when none
Find(s, sub, i) ==
  LET hits == { k \in i .. (Len(s) - Len(sub) + 1) : SubSeq(s, k, k + Len(sub) - 1) = sub }
  IN  IF hits = {} THEN 0 ELSE CHOOSE k \in hits : \A j \in hits : k <= j

\* str.replace(old, new, 1): the first occurrence of old replaced by new
Replace1(s, old, new) ==
  LET i == Find(s, old, 1)
  IN  IF i = 0 THEN s
      ELSE SubSeq(s, 1, i - 1) \o new \o SubSeq(s, i + Len(old), Len(s))

RECURSIVE Split(_, _)
\* str.split(sep) for a one-character separator
Split(s, sep) ==
  LET i == Find(s, << sep >>, 1)
  IN  IF i = 0 THEN << s >>
      ELSE << SubSeq(s, 1, i - 1) >> \o Split(SubSeq(s, i + 1, Len(s)), sep)

RECURSIVE Join(_, _)
\* sep.join(parts)
Join(parts, sep) ==
  IF parts = << >> THEN << >>
  ELSE IF Len(parts) = 1 THEN parts[1]
  ELSE parts[1] \o sep \o Join(Tail(parts), sep)

(***************************************************************************)
(* shlex.split(s): posix mode, whitespace_split, no comments               *)
(***************************************************************************)
whitespace == { " ", "\t", "\r", "\n" }
quotes == { "'", "\"" }
escape == "\\"
escapedquotes == { "\"" }

\* one turn of shlex.read_token's loop on the character c.  state is " " between
\* tokens, "a" inside a word, a quote character inside quotes, escape after a
\* backslash; tokens are the tokens read so far
read_token(st, c) ==
  IF st.state = " "
  THEN IF c \in whitespace THEN st
       ELSE IF c = escape THEN [ st EXCEPT !.escapedstate = "a", !.state = escape ]
       ELSE IF c \in quotes THEN [ st EXCEPT !.state = c, !.quoted = TRUE ]
       ELSE [ st EXCEPT !.token = << c >>, !.state = "a" ]
  ELSE IF st.state \in quotes
  THEN IF c = st.state THEN [ st EXCEPT !.state = "a" ]
       ELSE IF c = escape /\ st.state \in escapedquotes
       THEN [ st EXCEPT !.escapedstate = st.state, !.state = escape ]
       ELSE [ st EXCEPT !.token = Append(@, c) ]
  ELSE IF st.state = escape
  THEN LET kept == IF st.escapedstate \in quotes /\ c # escape /\ c # st.escapedstate
                   THEN Append(st.token, escape) ELSE st.token
       IN  [ st EXCEPT !.token = Append(kept, c), !.state = st.escapedstate ]
  ELSE IF c \in whitespace
       THEN [ st EXCEPT !.state = " ", !.token = << >>, !.quoted = FALSE,
                        !.tokens = Append(@, st.token) ]
       ELSE IF c \in quotes THEN [ st EXCEPT !.state = c, !.quoted = TRUE ]
       ELSE IF c = escape THEN [ st EXCEPT !.escapedstate = "a", !.state = escape ]
       ELSE [ st EXCEPT !.token = Append(@, c) ]

RECURSIVE read_chars(_, _, _, _)
\* read_token applied to the characters s[lo..hi] in order, from the state st
read_chars(s, lo, hi, st) ==
  IF lo > hi THEN st
  ELSE IF lo = hi THEN read_token(st, s[lo])
  ELSE LET mid == (lo + hi) \div 2
           left == read_chars(s, lo, mid, st)
       IN  \* the test has the first half read before the second half is entered
           IF left.state = "" THEN left ELSE read_chars(s, mid + 1, hi, left)

\* shlex.split: ok = FALSE when it raises ValueError (no closing quotation, no
\* escaped character); the last token is delivered at the end of the text
shlex_split(s) ==
  LET st == read_chars(s, 1, Len(s),
                       [ state |-> " ", escapedstate |-> "a", token |-> << >>,
                         quoted |-> FALSE, tokens |-> << >> ])
  IN  IF st.state \in quotes \/ st.state = escape
      THEN [ ok |-> FALSE, tokens |-> << >> ]
      ELSE [ ok |-> TRUE,
             tokens |-> IF st.token # << >> \/ st.quoted
                        THEN Append(st.tokens, st.token) ELSE st.tokens ]

(***************************************************************************)
(* os.path.expanduser and os.path.abspath (posixpath)                      *)
(***************************************************************************)
\* os.path.expanduser: "~" and "~/..." take HOME; "~name" of an unknown user is kept
expanduser(path) ==
  IF ~ StartsWith(path, << "~" >>) THEN path
  ELSE LET f == Find(path, << "/" >>, 1)
           i == IF f = 0 THEN Len(path) + 1 ELSE f
       IN  IF i # 2 THEN path
           ELSE LET r == HOME \o SubSeq(path, i, Len(path))
                IN  IF r = << >> THEN << "/" >> ELSE r

RECURSIVE norm_comps(_, _, _)
\* the component loop of posixpath.normpath
norm_comps(comps, initial_slashes, new_comps) ==
  IF comps = << >> THEN new_comps
  ELSE LET comp == Head(comps) IN
    IF comp = << >> \/ comp = << "." >>
    THEN norm_comps(Tail(comps), initial_slashes, new_comps)
    ELSE IF \/ comp # << ".", "." >>
            \/ (initial_slashes = 0 /\ new_comps = << >>)
            \/ (new_comps # << >> /\ new_comps[Len(new_comps)] = << ".", "." >>)
    THEN norm_comps(Tail(comps), initial_slashes, Append(new_comps, comp))
    ELSE IF new_comps # << >>
    THEN norm_comps(Tail(comps), initial_slashes, SubSeq(new_comps, 1, Len(new_comps) - 1))
    ELSE norm_comps(Tail(comps), initial_slashes, new_comps)

\* posixpath.normpath
normpath(path) ==
  IF path = << >> THEN << "." >>
  ELSE LET initial_slashes ==
             IF ~ StartsWith(path, << "/" >>) THEN 0
             ELSE IF StartsWith(path, << "/", "/" >>) /\ ~ StartsWith(path, << "/", "/", "/" >>)
             THEN 2 ELSE 1
           joined == Join(norm_comps(Split(path, "/"), initial_slashes, << >>), << "/" >>)
           r == [ k \in 1..initial_slashes |-> "/" ] \o joined
       IN  IF r = << >> THEN << "." >> ELSE r

\* posixpath.abspath: a relative path is joined to the process's working directory
abspath(path) ==
  IF StartsWith(path, << "/" >>) THEN normpath(path)
  ELSE normpath(getcwd \o << "/" >> \o path)

(***************************************************************************)
(* AgentManager.validate_command and its helpers                           *)
(***************************************************************************)
\* the value standing for "no exception raised"
NoError == "None"

\* _validate_command_args: the ValueError it raises, or NoError
validate_command_args(cmd, args) ==
  LET allowed_args == allowed_shell_commands[cmd].args
      action_ok == args # << >> /\ args[1] \in allowed_args
  IN  IF cmd = <<"p", "m", "2">>
      THEN IF action_ok THEN NoError ELSE "Invalid pm2 action"
      ELSE IF cmd = <<"n", "p", "m">>
      THEN IF action_ok THEN NoError ELSE "Invalid npm action"
      ELSE IF cmd \in { <<"c", "a", "t">>, <<"t", "a", "i", "l">> }
      THEN NoError
      ELSE IF \E k \in DOMAIN args :
                StartsWith(args[k], << "-" >>) /\ args[k] \notin allowed_args
           THEN "Invalid argument"
           ELSE NoError

\* os.path.abspath(safe_dir) for each safe directory
safe_prefixes == [ i \in DOMAIN safe_directories |-> abspath(safe_directories[i]) ]

\* os.path.abspath(os.path.expanduser(log_dir)) for each log directory
log_prefixes == [ i \in DOMAIN log_directories |-> abspath(expanduser(log_directories[i])) ]

\* the containment test of _validate_directory with the os.path.abspath call left out
path_allowed_literal(part) ==
  LET path == expanduser(part)
  IN  \/ \E i \in DOMAIN safe_prefixes : StartsWith(path, safe_prefixes[i])
      \/ \E i \in DOMAIN log_prefixes : StartsWith(path, log_prefixes[i])

\* the containment test of _validate_directory for one token that holds a separator
path_allowed(part) ==
  LET abs_path == abspath(expanduser(part))
  IN  \/ \E i \in DOMAIN safe_prefixes : StartsWith(abs_path, safe_prefixes[i])
      \/ \E i \in DOMAIN log_prefixes : StartsWith(abs_path, log_prefixes[i])

\* _validate_directory: the ValueError it raises, or NoError
validate_directory(cmd_parts) ==
  IF \E k \in DOMAIN cmd_parts :
       /\ Find(cmd_parts[k], << "/" >>, 1) # 0
       /\ ~ path_allowed(cmd_parts[k])
  THEN "Path not allowed"
  ELSE NoError

\* the text validate_command stores back into parameters["command"]
rewrite(shell_command, base_cmd) ==
  IF base_cmd # <<"c", "d">>
  THEN Replace1(shell_command, base_cmd, allowed_shell_commands[base_cmd].path)
  ELSE shell_command

\* validate_shell with the allow-list test applied only where the path is looked up
validate_shell_unlisted_passes(c, cmd_parts) ==
  LET base_cmd == cmd_parts[1]
  IN  IF base_cmd \notin DOMAIN allowed_shell_commands
      THEN [ raised |-> validate_directory(cmd_parts), command |-> c ]
      ELSE LET rewritten == [ c EXCEPT !.command = rewrite(c.command, base_cmd) ]
               args_error == validate_command_args(base_cmd, Tail(cmd_parts))
           IN  IF args_error # NoError
               THEN [ raised |-> args_error, command |-> rewritten ]
               ELSE [ raised |-> validate_directory(cmd_parts), command |-> rewritten ]

\* validate_command from the base command on: the allow-list test, the rewrite,
\* the argument rules and the path rules
validate_shell(c, cmd_parts) ==
  LET base_cmd == cmd_parts[1]
  IN  IF base_cmd \notin DOMAIN allowed_shell_commands
      THEN [ raised |-> "Shell command not allowed", command |-> c ]
      ELSE LET rewritten == [ c EXCEPT !.command = rewrite(c.command, base_cmd) ]
               args_error == validate_command_args(base_cmd, Tail(cmd_parts))
           IN  IF args_error # NoError
               THEN [ raised |-> args_error, command |-> rewritten ]
               ELSE [ raised |-> validate_directory(cmd_parts), command |-> rewritten ]

\* validate_command: raised is the ValueError (NoError when it returns True),
\* command is the command object as the call leaves it; a plain dict has no
\* attribute command_type, and line 197 raises AttributeError on it
validate_command(c) ==
  IF c.class = "dict"
  THEN [ raised |-> "AttributeError", command |-> c ]
  ELSE IF c.command_type \notin DOMAIN allowed_commands
  THEN [ raised |-> "Invalid command type", command |-> c ]
  ELSE IF c.action \notin allowed_commands[c.command_type]
  THEN [ raised |-> "Invalid action", command |-> c ]
  ELSE IF c.command_type # "shell"
  THEN [ raised |-> NoError, command |-> c ]
  ELSE IF c.command = << >>
  THEN [ raised |-> "Empty shell command", command |-> c ]
  ELSE LET split == shlex_split(c.command) IN
    IF ~ split.ok
    THEN [ raised |-> "Invalid shell command format", command |-> c ]
    ELSE IF split.tokens = << >>
    THEN [ raised |-> "Empty shell command", command |-> c ]
    ELSE validate_shell(c, split.tokens)

(***************************************************************************)
(* execute_command and the two paths it dispatches to.  What the host does *)
(* (how a subprocess ends, whether a file can be read) is not decided by   *)
(* the code, so each operator gives the set of results the call can have.  *)
(***************************************************************************)
\* AgentResponse: data is << >> for None, << d >> for the mapping d
AgentResponse(success, message, data) ==
  [ success |-> success, message |-> message, data |-> data ]

\* how subprocess.run can end: exit 0, exit non-zero, TimeoutExpired, OSError
Outcomes == { "exit0", "exit1", "timeout", "oserror" }

\* what os.environ of the gateway process can hold when a handler reads it
Environs ==
  { "PATH" :> "/usr/bin:/bin" @@ "HOME" :> "/root",
    "PATH" :> "/tmp/bin" @@ "HOME" :> "/root" @@ "LD_PRELOAD" :> "/tmp/preload.so" }

\* _get_env: a copy of os.environ with PATH and NODE_ENV set
get_env(environ) ==
  ( "PATH" :> "/usr/local/sbin:/usr/local/bin:/usr/sbin:/usr/bin:/sbin:/bin"
    @@ "NODE_ENV" :> "production" ) @@ environ

\* a subprocess.run(cmd, shell=True, cwd=cwd, env=env, timeout=300) call and
\* how it ended
Launch(cmd, cwd, env, outcome) ==
  [ cmd |-> cmd, cwd |-> cwd, env |-> env, outcome |-> outcome ]

\* one result of a handler: the response, the subprocess.run calls made, the
\* validate_command calls made and the command object afterwards; further the
\* files opened, the records handed to an audit sink (the handlers hold no such
\* call), and the exception that left the handler (NoError when it returned)
Result(response, launched, calls, command) ==
  [ response |-> response, launched |-> launched, calls |-> calls, command |-> command,
    opened |-> << >>, audited |-> << >>, escaped |-> NoError ]

\* the handler ends by an exception it does not catch
Raise(exception, command) ==
  [ Result(AgentResponse(FALSE, exception, << >>), << >>, << >>, command)
      EXCEPT !.escaped = exception ]

\* the record of one validate_command(c) call with the result v: the text it was
\* given and that text's tokens, what it raised, the text it left
Call(c, v) ==
  [ before |-> c.command, split |-> shlex_split(c.command),
    raised |-> v.raised, after |-> v.command.command ]

\* _execute_shell_command
execute_shell_command(c) ==
  LET shell_command == c.command
      v == validate_command(c)
      call == Call(c, v)
      process(outcome) ==
        IF outcome = "timeout"
        THEN AgentResponse(FALSE, "Command timed out after 300 seconds",
                           << [ error_type |-> "timeout" ] >>)
        ELSE IF outcome = "oserror"
        THEN AgentResponse(FALSE, "Error executing shell command",
                           << [ error_type |-> "execution_error" ] >>)
        ELSE AgentResponse(outcome = "exit0",
                           IF outcome = "exit0" THEN "Command executed successfully"
                                                ELSE "Command failed",
                           << [ return_code |-> IF outcome = "exit0" THEN 0 ELSE 1,
                                command |-> shell_command ] >>)
  IN  IF shell_command = << >>
      THEN { Result(AgentResponse(FALSE, "No shell command provided", << >>),
                    << >>, << >>, c) }
      ELSE IF v.raised # NoError
      THEN { Result(AgentResponse(FALSE, v.raised, << >>), << >>, << call >>, v.command) }
      ELSE { Result(process(outcome),
                    << Launch(shell_command, shell_cwd, get_env(environ), outcome) >>,
                    << call >>, v.command) : outcome \in Outcomes, environ \in Environs }

\* the command text _manage_project composes for restart, status, logs, update
project_cmd(project, action, parameters) ==
  LET pm2 == allowed_shell_commands[<<"p", "m", "2">>].path
      lines == IF parameters.lines = << >> THEN <<"2", "0">> ELSE parameters.lines[1]
  IN  IF action = "restart"
      THEN pm2 \o <<" ", "r", "e", "s", "t", "a", "r", "t", " ">> \o project.pm2_name
      ELSE IF action = "status"
      THEN pm2 \o <<" ", "s", "h", "o", "w", " ">> \o project.pm2_name
      ELSE IF action = "logs"
      THEN pm2 \o <<" ", "l", "o", "g", "s", " ">> \o project.pm2_name \o <<" ", "-", "-", "n", "o", "s", "t", "r", "e", "a", "m", " ", "-", "-", "l", "i", "n", "e", "s", " ">> \o lines
      ELSE Join(<< <<"c", "d", " ">> \o project.directory,
                   allowed_shell_commands[<<"g", "i", "t">>].path \o <<" ", "p", "u", "l", "l">>,
                   allowed_shell_commands[<<"n", "p", "m">>].path \o <<" ", "i", "n", "s", "t", "a", "l", "l">>,
                   pm2 \o <<" ", "r", "e", "s", "t", "a", "r", "t", " ">> \o project.pm2_name >>, <<" ", "&", "&", " ">>)

\* _manage_project as if it did not look the project up in the registry
manage_project_unregistered(project_name, action, parameters) ==
  { Result(AgentResponse(outcome = "exit0", "Project action", << >>),
           << Launch(allowed_shell_commands[<<"p", "m", "2">>].path \o <<" ", "s", "h", "o", "w">>, << "/" >>,
                     get_env(environ), outcome) >>,
           << >>, parameters) : outcome \in Outcomes, environ \in Environs }

\* _manage_project
manage_project(project_name, action, parameters) ==
  IF project_name \notin DOMAIN projects
  THEN { Result(AgentResponse(FALSE, "Unknown project", << >>), << >>, << >>, parameters) }
  ELSE LET project == projects[project_name]
           cmd == project_cmd(project, action, parameters)
           process(outcome) ==
             IF outcome \in { "timeout", "oserror" }
             THEN AgentResponse(FALSE, "Error managing project", << >>)
             ELSE AgentResponse(outcome = "exit0",
                                IF outcome = "exit0" THEN "Project action successful"
                                                     ELSE "Project action failed",
                                << [ return_code |-> IF outcome = "exit0" THEN 0 ELSE 1,
                                     command |-> cmd,
                                     project |-> project_name ] >>)
           config(readable) ==
             IF readable
             THEN AgentResponse(TRUE, "Configuration",
                                << [ config |-> project.directory \o << "/" >>
                                                  \o project.config_file ] >>)
             ELSE AgentResponse(FALSE, "Error reading config", << >>)
       IN
    IF action = "config"
    THEN IF project.config_file = << >>
         THEN { Result(AgentResponse(FALSE, "No config file defined", << >>),
                       << >>, << >>, parameters) }
         ELSE { [ Result(config(readable), << >>, << >>, parameters)
                    EXCEPT !.opened = << project.directory \o << "/" >> \o project.config_file >> ] :
                  readable \in BOOLEAN }
    ELSE IF action \notin { "restart", "status", "logs", "update" }
    THEN { Result(AgentResponse(FALSE, "Unknown action for project", << >>),
                  << >>, << >>, parameters) }
    ELSE { Result(process(outcome),
                  << Launch(cmd, project.directory, get_env(environ), outcome) >>,
                  << >>, parameters) : outcome \in Outcomes, environ \in Environs }

\* the body of execute_command's try block: dispatch on the command type; on a
\* plain dict the attribute read of line 273 raises AttributeError
execute_command_try(c) ==
  IF c.class = "dict"
  THEN { Raise("AttributeError", c) }
  ELSE IF c.command_type = "project"
  THEN IF c.project = ""
       THEN { Result(AgentResponse(FALSE, "Project name required for project commands", << >>),
                     << >>, << >>, c) }
       ELSE manage_project(c.project, c.action, c)
  ELSE IF c.command_type = "shell"
  THEN execute_shell_command(c)
  ELSE { Result(AgentResponse(TRUE, "Executed", << [ command |-> c ] >>), << >>, << >>, c) }

\* execute_command as if it had no try block
execute_command_uncaught(c) == execute_command_try(c)

\* execute_command: the try block, and the handler of every Exception
execute_command(c) ==
  { IF r.escaped = NoError THEN r
    ELSE [ r EXCEPT !.escaped = NoError,
                    !.response = AgentResponse(FALSE, "Error executing command",
                                               << [ error_type |-> "execution_error" ] >>) ] :
    r \in execute_command_try(c) }

(***************************************************************************)
(* The commands callers send                                               *)
(***************************************************************************)
\* AgentCommand: parameters["command"] is command (<< >> when absent or empty),
\* parameters["project"] is project ("" when absent), parameters["lines"] is
\* lines (<< >> when absent, << text >> when given); class tells an AgentCommand
\* object from a plain dict of the same keys
AgentCommand(command_type, action, command, project, lines) ==
  [ class |-> "AgentCommand", command_type |-> command_type, action |-> action,
    command |-> command, project |-> project, lines |-> lines ]

\* first chunks of a caller's command line
Bases ==
  { <<"l", "s">>, <<"c", "d">>, <<"c", "a", "t">>, <<"g", "i", "t">>, <<"n", "p", "m">>, <<"p", "m", "2">>, <<"r", "m">>, <<"c", "\"", "a", "\"", "t">> }

\* argument chunks of a caller's command line
Chunks ==
  { <<"-", "l", "a">>, <<".", ".">>, <<"p", "u", "s", "h">>, <<"r", "e", "s", "t", "a", "r", "t">>,
    <<"/", "v", "a", "r", "/", "w", "w", "w", "/", "m", "c", "p", "s", "e", "r", "v", "e", "r", "/", "s", "r", "c">>, <<"/", "v", "a", "r", "/", "w", "w", "w", "/", "m", "c", "p", "s", "e", "r", "v", "e", "r", "/", ".", ".", "/", ".", ".", "/", "e", "t", "c">>,
    <<"/", "v", "a", "r", "/", "w", "w", "w", "/", "m", "c", "p", "s", "e", "r", "v", "e", "r", "-", "e", "v", "i", "l">>, <<"/", "v", "a", "r", "/", "l", "o", "g", "/", "n", "g", "i", "n", "x", "/", "c", "a", "t">>, <<"&", "&", " ", "r", "m">> }

RECURSIVE Lines(_)
\* the command lines of a base followed by at most n chunks, joined by blanks
Lines(n) ==
  IF n = 0 THEN Bases
  ELSE LET shorter == Lines(n - 1)
       IN  shorter \cup { l \o << " " >> \o a : l \in shorter, a \in Chunks }

\* further command lines: none, blank, an unbalanced quote, an absolute base, the
\* specification's examples
OtherLines ==
  { << >>, <<" ">>, <<"l", "s", " ", "\"", "x">>, <<"/", "b", "i", "n", "/", "l", "s", " ", "-", "l", "a">>, <<"l", "s", " ", "-", "r", "f">>, <<"c", "a", "t", " ", "/", "e", "t", "c", "/", "p", "a", "s", "s", "w", "d">>,
    <<"l", "s", " ", "-", "l", "a", " ", "/", "v", "a", "r", "/", "w", "w", "w", "/", "m", "c", "p", "s", "e", "r", "v", "e", "r">>, <<"n", "p", "m", " ", "i", "n", "s", "t", "a", "l", "l">> }

ShellCommands ==
       { AgentCommand("shell", "execute", l, "", << >>) : l \in Lines(MaxArgs) \cup OtherLines }
  \cup { AgentCommand("shell", "status", l, "", << >>) : l \in Lines(0) }

ProjectCommands ==
  { AgentCommand("project", a, << >>, p, n) :
      a \in allowed_commands["project"] \cup { "execute" },
      p \in DOMAIN projects \cup { "unknown-project", "" },
      n \in { << >>, << <<"5", "0">> >>, << <<"1", "0", "0", "0", "0", "0", "0">> >>, << <<"1", ";", " ", "r", "m", " ", "-", "r", "f", " ", "/">> >> } }

\* the commands the Telegram bot's suggestions hold: plain dicts
SuggestionCommands ==
  { [ AgentCommand("project", a, << >>, p, << >>) EXCEPT !.class = "dict" ] :
      a \in { "status", "update" }, p \in { "all", "selfi-bot" } }

OtherCommands ==
  { AgentCommand(t, a, << >>, "", << >>) : t \in { "droplet", "system" }, a \in { "list", "status" } }

Commands == ShellCommands \cup ProjectCommands \cup OtherCommands \cup SuggestionCommands

(***************************************************************************)
(* The state machine: one command object at a time                         *)
(***************************************************************************)
VARIABLES
  pc,          \* "idle", "received" (a command object exists), "responded"
  submitted,   \* the command as the caller built it
  command,     \* the command object now (validate_command rewrites it in place)
  calls,       \* the validate_command calls made on the object, in order
  launched,    \* the subprocess.run calls made for the object, in order
  response,    \* << >> or << the AgentResponse returned >>
  opened,      \* the files opened for the object, in order
  audited,     \* the records handed to an audit sink for the object, in order
  loop,        \* the task the event loop's thread is running (0: none)
  tasks,       \* the event loop's tasks
  suggestions_cache,  \* TelegramBot.suggestions_cache: user id -> suggestions (<< >>: no entry)
  keyboards,   \* the messages with suggestion buttons the bot has sent, in order
  executed     \* the execute_command calls handle_callback has made, in order

vars ==
  << pc, submitted, command, calls, launched, response, opened, audited, loop, tasks,
     suggestions_cache, keyboards, executed >>

\* the state of one command object
command_vars == << pc, submitted, command, calls, launched, response, opened, audited >>

\* the state of the event loop
loop_vars == << loop, tasks >>

\* the state of the Telegram bot and of its chats
bot_vars == << suggestions_cache, keyboards, executed >>

NoCommand == AgentCommand("", "", << >>, "", << >>)

\* the coroutines the event loop can be asked to run: ToolManager.update_project
\* and ToolManager.get_project_status of a registered project
TaskCommands ==
  { [ project |-> p, action |-> a ] : p \in DOMAIN projects, a \in { "update", "status" } }

\* the commands of the shell line _manage_project composes, which the shell
\* runs one after the other
steps(action) ==
  IF action = "update"
  THEN << "cd", "git pull", "npm install", "pm2 restart" >>
  ELSE << "pm2 show" >>

NoTask == [ state |-> "none", project |-> "", action |-> "", step |-> 0 ]

(***************************************************************************)
(* TelegramBot: the users, the messages they send, parse_intent            *)
(***************************************************************************)
\* the Telegram users that write to the bot
Users == { 1, 2 }

\* TelegramBot.allowed_users
allowed_users == { 1 }

\* is_user_allowed
is_user_allowed(user_id) == user_id \in allowed_users

\* the texts users send
Messages ==
  { <<"S", "t", "a", "t", "u", "s">>, <<"l", "o", "g", "s", " ", "s", "e", "l", "f", "i", "-", "b", "o", "t">>, <<"u", "p", "d", "a", "t", "e", " ", "a", "l", "l">>, <<"u", "p", "d", "a", "t", "e", " ", "s", "e", "l", "f", "i", "-", "b", "o", "t">>,
    <<"r", "e", "s", "t", "a", "r", "t", " ", "s", "e", "l", "f", "i", "-", "b", "o", "t">>, <<"h", "e", "l", "l", "o">> }

\* str.lower on the letters the texts hold
lower(text) ==
  [ k \in DOMAIN text |-> IF text[k] = "S" THEN "s" ELSE text[k] ]

\* sub in text
Contains(text, sub) == Find(text, sub, 1) # 0

\* any(word in message for word in words)
AnyWord(message, words) == \E w \in words : Contains(message, w)

\* the project names parse_intent goes through, in order
intent_projects ==
  << [ name |-> "selfi-bot", text |-> <<"s", "e", "l", "f", "i", "-", "b", "o", "t">> ],
     [ name |-> "selfi-miniapp", text |-> <<"s", "e", "l", "f", "i", "-", "m", "i", "n", "i", "a", "p", "p">> ] >>

\* one suggestion: the description shown on the button and the command dict
Suggestion(verb, action, project, lines) ==
  [ description |-> << verb, project >>,
    command |-> [ AgentCommand("project", action, << >>, project, lines)
                    EXCEPT !.class = "dict" ] ]

\* the suggestions of one intent for the projects the message names
project_suggestions(message, verb, action, lines) ==
  LET named(i) == \/ Contains(message, intent_projects[i].text)
                  \/ Contains(message, <<"a", "l", "l">>)
      one(i) == IF named(i)
                THEN << Suggestion(verb, action, intent_projects[i].name, lines) >>
                ELSE << >>
  IN  one(1) \o one(2)

\* parse_intent
parse_intent(message) ==
     ( IF AnyWord(message, { <<"s", "t", "a", "t", "u", "s">>, <<"h", "e", "a", "l", "t", "h">>, <<"r", "u", "n", "n", "i", "n", "g">> })
       THEN << Suggestion("Check all project statuses", "status", "all", << >>) >>
       ELSE << >> )
  \o ( IF AnyWord(message, { <<"l", "o", "g">>, <<"l", "o", "g", "s">>, <<"e", "r", "r", "o", "r">> })
       THEN project_suggestions(message, "View logs", "logs", << <<"2", "0">> >>)
       ELSE << >> )
  \o ( IF AnyWord(message, { <<"u", "p", "d", "a", "t", "e">>, <<"d", "e", "p", "l", "o", "y">>, <<"l", "a", "t", "e", "s", "t">> })
       THEN project_suggestions(message, "Update", "update", << >>)
       ELSE << >> )
  \o ( IF AnyWord(message, { <<"r", "e", "s", "t", "a", "r", "t">>, <<"r", "e", "b", "o", "o", "t">>, <<"r", "e", "s", "e", "t">> })
       THEN project_suggestions(message, "Restart", "restart", << >>)
       ELSE << >> )

Init ==
  /\ pc = "idle"
  /\ submitted = NoCommand
  /\ command = NoCommand
  /\ calls = << >>
  /\ launched = << >>
  /\ response = << >>
  /\ opened = << >>
  /\ audited = << >>
  /\ loop = 0
  /\ tasks = [ t \in 1..MaxTasks |-> NoTask ]
  /\ suggestions_cache = [ u \in Users |-> << >> ]
  /\ keyboards = << >>
  /\ executed = << >>

\* a caller builds an AgentCommand
Receive ==
  /\ pc = "idle"
  /\ \E c \in Commands :
       /\ submitted' = c
       /\ command' = c
  /\ pc' = "received"
  /\ calls' = << >>
  /\ launched' = << >>
  /\ response' = << >>
  /\ opened' = << >>
  /\ audited' = << >>
  /\ UNCHANGED loop_vars
  /\ UNCHANGED bot_vars

\* a caller calls validate_command(command)
Validate ==
  /\ pc = "received"
  /\ Len(calls) < MaxValidations
  /\ LET v == validate_command(command)
     IN  /\ command' = v.command
         /\ calls' = Append(calls, Call(command, v))
  /\ UNCHANGED << pc, submitted, launched, response, opened, audited >>
  /\ UNCHANGED loop_vars
  /\ UNCHANGED bot_vars

\* a caller awaits execute_command(command): it gets the response, or the
\* exception that left execute_command
Execute ==
  /\ pc = "received"
  /\ \E r \in execute_command(command) :
       /\ command' = r.command
       /\ calls' = calls \o r.calls
       /\ launched' = launched \o r.launched
       /\ opened' = opened \o r.opened
       /\ audited' = audited \o r.audited
       /\ response' = IF r.escaped = NoError THEN << r.response >> ELSE << >>
       /\ pc' = IF r.escaped = NoError THEN "responded" ELSE "raised"
  /\ UNCHANGED submitted
  /\ UNCHANGED loop_vars
  /\ UNCHANGED bot_vars

Next == Receive \/ Validate \/ Execute

Spec == Init /\ [][Next]_vars

(***************************************************************************)
(* The event loop: the handlers are coroutines of one asyncio event loop.  *)
(* execute_command and _manage_project await nothing that suspends, and    *)
(* subprocess.run is a blocking call, so from the moment the loop resumes  *)
(* a task until subprocess.run has returned and the response is built, the *)
(* loop's thread is inside that task.                                      *)
(***************************************************************************)
\* the loop's thread is inside a task (awaiting the subprocess instead of
\* blocking in subprocess.run would leave it free: LoopHeld_awaited)
LoopHeld_awaited == FALSE

LoopHeld == loop # 0

\* a handler awaits execute_command: the loop gets a task to run
Submit ==
  /\ \E t \in 1..MaxTasks, c \in TaskCommands :
       /\ tasks[t].state = "none"
       /\ tasks' = [ tasks EXCEPT ![t] = [ state |-> "pending", project |-> c.project,
                                           action |-> c.action, step |-> 0 ] ]
  /\ UNCHANGED loop
  /\ UNCHANGED command_vars
  /\ UNCHANGED bot_vars

\* the loop resumes task t, which runs up to subprocess.run: the shell starts
\* the first command of the line
StartTask(t) ==
  /\ tasks[t].state = "pending"
  /\ ~ LoopHeld
  /\ tasks' = [ tasks EXCEPT ![t].state = "running", ![t].step = 1 ]
  /\ loop' = t
  /\ UNCHANGED command_vars
  /\ UNCHANGED bot_vars

Start == \E t \in 1..MaxTasks : StartTask(t)

\* the shell of task t goes on to the next command of the line
Step ==
  /\ \E t \in 1..MaxTasks :
       /\ tasks[t].state = "running"
       /\ tasks[t].step < Len(steps(tasks[t].action))
       /\ tasks' = [ tasks EXCEPT ![t].step = @ + 1 ]
  /\ UNCHANGED loop
  /\ UNCHANGED command_vars
  /\ UNCHANGED bot_vars

\* the shell of task t ends (a command of the line failed, or the last one is
\* done, or the timeout struck), subprocess.run returns and the task returns its response
Finish ==
  /\ \E t \in 1..MaxTasks :
       /\ tasks[t].state = "running"
       /\ tasks' = [ tasks EXCEPT ![t].state = "done" ]
       /\ loop' = IF loop = t THEN 0 ELSE loop
  /\ UNCHANGED command_vars
  /\ UNCHANGED bot_vars

LoopNext == Submit \/ Start \/ Step \/ Finish

LoopSpec == Init /\ [][LoopNext]_vars

(***************************************************************************)
(* The Telegram bot: the Application hands the updates to the handlers one *)
(* after the other; a user can press any button of any message the bot has *)
(* sent to them.                                                           *)
(***************************************************************************)
\* handle_message: user u sends a text
handle_message ==
  /\ Len(keyboards) < MaxMessages
  /\ \E u \in Users, text \in Messages :
       LET message == lower(text)
           suggestions == parse_intent(message)
       IN  IF ~ is_user_allowed(u) \/ suggestions = << >>
           THEN UNCHANGED << suggestions_cache, keyboards >>
           ELSE /\ suggestions_cache' = [ suggestions_cache EXCEPT ![u] = suggestions ]
                /\ keyboards' = Append(keyboards, [ user |-> u, suggestions |-> suggestions ])
  /\ UNCHANGED executed
  /\ UNCHANGED command_vars
  /\ UNCHANGED loop_vars

\* handle_callback: the user presses button i ("suggestion_<i - 1>") of message m
handle_callback ==
  /\ Len(executed) < MaxPresses
  /\ \E m \in DOMAIN keyboards :
       \E i \in DOMAIN keyboards[m].suggestions :
         LET u == keyboards[m].user
             suggestions == suggestions_cache[u]
         IN  IF ~ is_user_allowed(u) \/ suggestions = << >> \/ i > Len(suggestions)
             THEN UNCHANGED << suggestions_cache, executed >>
             ELSE \E r \in execute_command(suggestions[i].command) :
                    /\ executed' = Append(executed,
                                          [ keyboard |-> m, index |-> i,
                                            command |-> suggestions[i].command,
                                            response |-> r.response ])
                    /\ suggestions_cache' = [ suggestions_cache EXCEPT ![u] = << >> ]
  /\ UNCHANGED keyboards
  /\ UNCHANGED command_vars
  /\ UNCHANGED loop_vars

BotNext == handle_message \/ handle_callback

BotSpec == Init /\ [][BotNext]_vars


TypeOK ==
  /\ pc \in { "idle", "received", "responded", "raised" }
  /\ Len(calls) <= MaxValidations + 1
  /\ Len(launched) <= 1
  /\ Len(response) <= 1
  /\ Len(opened) <= 1
  /\ loop \in 0..MaxTasks
  /\ \A t \in DOMAIN tasks : tasks[t].state \in { "none", "pending", "running", "done" }

(***************************************************************************)
(* Vocabulary of the properties                                            *)
(***************************************************************************)
\* the call's text tokenises, and its first token is no key of the allow-list registry
UnlistedBase(call) ==
  /\ call.split.ok
  /\ call.split.tokens # << >>
  /\ call.split.tokens[1] \notin DOMAIN allowed_shell_commands

\* the call's text tokenises, and its first token is a key of the allow-list registry
ListedBase(call) ==
  /\ call.split.ok
  /\ call.split.tokens # << >>
  /\ call.split.tokens[1] \in DOMAIN allowed_shell_commands

\* the command went down the raw shell path with a registered action
ShellEnvelope ==
  submitted.command_type = "shell" /\ submitted.action \in allowed_commands["shell"]

\* execute_command has returned, and made its validate_command call
ShellExecuted ==
  pc = "responded" /\ submitted.command_type = "shell" /\ calls # << >>

\* the validate_command call execute_command made
LastCall == calls[Len(calls)]

(***************************************************************************)
(* C1: a shell command whose first token is no key of the allow-list       *)
(* registry is rejected by validate_command with "Shell command not        *)
(* allowed" (the envelope being a shell command with a registered action,  *)
(* which validate_command tests first), and _execute_shell_command then    *)
(* returns success = false without any subprocess.run call.                *)
(***************************************************************************)
C1_UnlistedRejected ==
  /\ \A k \in DOMAIN calls :
       (ShellEnvelope /\ UnlistedBase(calls[k]))
         => calls[k].raised = "Shell command not allowed"
  /\ (ShellExecuted /\ UnlistedBase(LastCall))
       => (response[1].success = FALSE /\ launched = << >>)

\* execute_command has answered a shell command whose base command is unlisted
C1_Witness ==
  /\ ShellExecuted
  /\ ShellEnvelope
  /\ UnlistedBase(LastCall)
  /\ LastCall.raised = "Shell command not allowed"

\* the tokens of a text that tokenises
Tokens(text) == shlex_split(text).tokens

\* the validate_command call was made on a shell command line whose base is listed
OnListed(call) == ShellEnvelope /\ ListedBase(call)

\* the errors of the argument rules (_validate_command_args)
ArgumentErrors == { "Invalid argument", "Invalid pm2 action", "Invalid npm action" }

\* the token holds a path separator
HasSep(token) == Find(token, << "/" >>, 1) # 0

(***************************************************************************)
(* C2: every shell command line that reaches subprocess.run either holds   *)
(* no command-chaining operator, or each of its sub-commands passes the    *)
(* allow-list, argument and path rules; so no executable outside the       *)
(* allow-list runs as part of an approved line.                            *)
(***************************************************************************)
ChainOperators == { <<"&", "&">>, <<"|", "|">>, <<";">>, <<"|">>, <<"&">> }

RECURSIVE Segments(_)
\* the sub-commands of a token list, cut at its chaining operators
Segments(tokens) ==
  LET ops == { k \in DOMAIN tokens : tokens[k] \in ChainOperators }
  IN  IF ops = {} THEN << tokens >>
      ELSE LET k == CHOOSE i \in ops : \A j \in ops : i <= j
           IN  << SubSeq(tokens, 1, k - 1) >> \o Segments(SubSeq(tokens, k + 1, Len(tokens)))

\* a sub-command passes the rules validate_command applies to a line
SegmentApproved(seg) ==
  /\ seg # << >>
  /\ seg[1] \in DOMAIN allowed_shell_commands
  /\ validate_command_args(seg[1], Tail(seg)) = NoError
  /\ validate_directory(seg) = NoError

C2_WholeLineValidated ==
  \A k \in DOMAIN launched :
    submitted.command_type = "shell" =>
      LET segments == Segments(Tokens(launched[k].cmd))
      IN  Len(segments) = 1 \/ \A i \in DOMAIN segments : SegmentApproved(segments[i])

(***************************************************************************)
(* C3: for every approved shell command other than cd, the text handed to  *)
(* subprocess.run is the rewritten text validation produced: its base      *)
(* command is the registry's absolute path, not the caller's bare name.    *)
(***************************************************************************)
C3_RewrittenTextLaunched ==
  (ShellExecuted /\ launched # << >> /\ LastCall.split.tokens[1] # <<"c", "d">>)
    => /\ launched[1].cmd = LastCall.after
       /\ Tokens(launched[1].cmd)[1] = allowed_shell_commands[LastCall.split.tokens[1]].path

(***************************************************************************)
(* C4: every subprocess.run call, on the raw shell path and on the project *)
(* path alike, is preceded by a validate_command approval of the command   *)
(* text it launches.                                                       *)
(***************************************************************************)
C4_LaunchApproved ==
  \A k \in DOMAIN launched :
    \E i \in DOMAIN calls :
      /\ calls[i].raised = NoError
      /\ launched[k].cmd \in { calls[i].before, calls[i].after }

(***************************************************************************)
(* C5: a cd command line whose target resolves, from the directory the     *)
(* subprocess runs in, outside every safe directory is rejected by         *)
(* validation, and no subprocess is launched for it.                       *)
(***************************************************************************)
\* the directory "cd target" leads to in the subprocess lies under no safe directory
ResolvesOutsideSafe(target) ==
  LET path == expanduser(target)
      dir == IF StartsWith(path, << "/" >>) THEN normpath(path)
             ELSE normpath(shell_cwd \o << "/" >> \o path)
  IN  \A i \in DOMAIN safe_prefixes : ~ StartsWith(dir, safe_prefixes[i])

\* the call's text is a cd command line whose target lies outside the safe directories
CdOutside(call) ==
  /\ call.split.ok
  /\ Len(call.split.tokens) >= 2
  /\ call.split.tokens[1] = <<"c", "d">>
  /\ ResolvesOutsideSafe(call.split.tokens[2])

C5_CdOutsideRejected ==
  /\ \A k \in DOMAIN calls :
       (ShellEnvelope /\ CdOutside(calls[k])) => calls[k].raised # NoError
  /\ (ShellExecuted /\ CdOutside(LastCall)) => launched = << >>

(***************************************************************************)
(* C6: every token of a shell command line that holds a path separator is  *)
(* normalised (home shorthand expanded, "." and ".." collapsed, relative   *)
(* paths made absolute), and unless the normalised path starts with a safe *)
(* directory or a log directory the command is rejected, with "Path not    *)
(* allowed" when the allow-list and argument rules before it have passed,  *)
(* and no subprocess is launched.                                          *)
(***************************************************************************)
\* containment as the specification defines it: the normalised path starts with
\* a safe-directory or log-directory prefix
Contained(token) ==
  LET path == abspath(expanduser(token))
  IN  \/ \E i \in DOMAIN safe_prefixes : StartsWith(path, safe_prefixes[i])
      \/ \E i \in DOMAIN log_prefixes : StartsWith(path, log_prefixes[i])

\* one of the tokens is a path that is not contained
UncontainedToken(tokens) ==
  \E k \in DOMAIN tokens : HasSep(tokens[k]) /\ ~ Contained(tokens[k])

C6_PathsConfined ==
  /\ \A k \in DOMAIN calls :
       LET tokens == calls[k].split.tokens
       IN  (ShellEnvelope /\ calls[k].split.ok /\ UncontainedToken(tokens))
             => /\ calls[k].raised # NoError
                /\ ( /\ tokens[1] \in DOMAIN allowed_shell_commands
                     /\ validate_command_args(tokens[1], Tail(tokens)) = NoError )
                     => calls[k].raised = "Path not allowed"
  /\ (ShellExecuted /\ LastCall.split.ok /\ UncontainedToken(LastCall.split.tokens))
       => (launched = << >> /\ response[1].success = FALSE)

\* "cat /etc/passwd" was executed: rejected with "Path not allowed", nothing launched
C6_Witness ==
  /\ ShellExecuted
  /\ ShellEnvelope
  /\ submitted.command = <<"c", "a", "t", " ", "/", "e", "t", "c", "/", "p", "a", "s", "s", "w", "d">>
  /\ LastCall.raised = "Path not allowed"
  /\ launched = << >>
  /\ response[1].success = FALSE

(***************************************************************************)
(* C7: validation approves a cat command line only if its final path       *)
(* argument lies in a log directory; a final path that lies in a safe      *)
(* directory but in no log directory is rejected with a log-access-denied  *)
(* error.                                                                  *)
(***************************************************************************)
\* the normalised path starts with a log-directory prefix
InLogDirectory(token) ==
  \E i \in DOMAIN log_prefixes : StartsWith(abspath(expanduser(token)), log_prefixes[i])

\* the normalised path starts with a safe-directory prefix
InSafeDirectory(token) ==
  \E i \in DOMAIN safe_prefixes : StartsWith(abspath(expanduser(token)), safe_prefixes[i])

\* the places among a command line's arguments of those that hold a path separator
PathArguments(tokens) ==
  LET args == Tail(tokens)
  IN  { k \in DOMAIN args : HasSep(args[k]) }

\* the last argument of a command line that holds a path separator
FinalPath(tokens) ==
  LET args == Tail(tokens)
      ks == PathArguments(tokens)
  IN  args[CHOOSE k \in ks : \A j \in ks : j <= k]

C7_CatOnlyLogs ==
  \A k \in DOMAIN calls :
    LET tokens == calls[k].split.tokens
    IN  (OnListed(calls[k]) /\ tokens[1] = <<"c", "a", "t">> /\ PathArguments(tokens) # {})
          => /\ calls[k].raised = NoError => InLogDirectory(FinalPath(tokens))
             /\ (InSafeDirectory(FinalPath(tokens)) /\ ~ InLogDirectory(FinalPath(tokens)))
                  => calls[k].raised = "Log access denied"

(***************************************************************************)
(* C8: for git, npm and pm2, whose allowed arguments are sub-command       *)
(* names, validation rejects the line with an invalid-argument error       *)
(* unless its first non-flag argument is one of the allowed arguments.     *)
(***************************************************************************)
\* the places among a command line's arguments of those that are not flags
NonFlagArguments(tokens) ==
  LET args == Tail(tokens)
  IN  { k \in DOMAIN args : ~ StartsWith(args[k], << "-" >>) }

\* the command line has a first non-flag argument and the registry allows it
SubcommandAllowed(tokens) ==
  /\ NonFlagArguments(tokens) # {}
  /\ LET ks == NonFlagArguments(tokens)
         first == Tail(tokens)[CHOOSE k \in ks : \A j \in ks : k <= j]
     IN  first \in allowed_shell_commands[tokens[1]].args

C8_SubcommandVocabulary ==
  \A k \in DOMAIN calls :
    LET tokens == calls[k].split.tokens
    IN  ( /\ OnListed(calls[k])
          /\ tokens[1] \in { <<"g", "i", "t">>, <<"n", "p", "m">>, <<"p", "m", "2">> }
          /\ ~ SubcommandAllowed(tokens) )
          => calls[k].raised \in ArgumentErrors

(***************************************************************************)
(* C9: validate_command is idempotent: called twice in succession on the   *)
(* same command object it gives the same decision (both approve, or both   *)
(* reject with the same error) and leaves the same command text.           *)
(***************************************************************************)
C9_Idempotent ==
  \A k \in DOMAIN calls :
    k + 1 \in DOMAIN calls
      => /\ calls[k + 1].raised = calls[k].raised
         /\ calls[k + 1].after = calls[k].after

(***************************************************************************)
(* C10: for every approved command, the rewritten text tokenises to the    *)
(* registry's absolute path for the original base command followed by the  *)
(* remaining tokens of the original text, unchanged and in order.          *)
(***************************************************************************)
C10_RoundTrip ==
  \A k \in DOMAIN calls :
    (OnListed(calls[k]) /\ calls[k].raised = NoError)
      => LET original == calls[k].split.tokens
             rewritten == shlex_split(calls[k].after)
         IN  /\ rewritten.ok
             /\ rewritten.tokens # << >>
             /\ rewritten.tokens[1] = allowed_shell_commands[original[1]].path
             /\ Tail(rewritten.tokens) = Tail(original)

(***************************************************************************)
(* C11: execute_command rejects (success = false, no subprocess, no file   *)
(* read) every command whose type is not registered or whose action is not *)
(* in the allowed-action set of its type; and a command whose type and     *)
(* action are both registered is not rejected as an unknown action.        *)
(***************************************************************************)
\* the command's type is registered and its action is in that type's set
Registered ==
  /\ submitted.command_type \in DOMAIN allowed_commands
  /\ submitted.action \in allowed_commands[submitted.command_type]

C11_UnregisteredRejected ==
  pc = "responded"
    => /\ ~ Registered
            => (response[1].success = FALSE /\ launched = << >> /\ opened = << >>)
       /\ Registered => response[1].message # "Unknown action for project"

(***************************************************************************)
(* C12: a project command (an AgentCommand that names a project) whose     *)
(* project is not in the project registry gets the unknown-project         *)
(* failure whatever its action and parameters, and neither a subprocess    *)
(* launch nor a file read is attempted for it.                             *)
(***************************************************************************)
\* an AgentCommand of type project that names a project the registry lacks
NamesUnknownProject ==
  /\ submitted.class = "AgentCommand"
  /\ submitted.command_type = "project"
  /\ submitted.project # ""
  /\ submitted.project \notin DOMAIN projects

C12_UnknownProjectRejected ==
  NamesUnknownProject
    => /\ pc # "raised"
       /\ launched = << >>
       /\ opened = << >>
       /\ pc = "responded"
            => (response[1].success = FALSE /\ response[1].message = "Unknown project")

\* execute_command has answered an update of a project the registry lacks
C12_Witness ==
  /\ pc = "responded"
  /\ NamesUnknownProject
  /\ submitted.action = "update"
  /\ response[1].message = "Unknown project"

(***************************************************************************)
(* C13: a response with success = false whose failure comes from           *)
(* validation (the shell command was empty, malformed, not allowed, or had *)
(* a bad argument or path) or from execution (timeout, launch failure,     *)
(* exception) carries a data mapping with a machine-readable error kind.   *)
(***************************************************************************)
\* the shell path answered without launching: the command was empty or rejected
ValidationFailure == submitted.command_type = "shell" /\ launched = << >>

\* a subprocess was launched and timed out or could not be run
ExecutionFailure ==
  \E k \in DOMAIN launched : launched[k].outcome \in { "timeout", "oserror" }

\* the response carries a mapping with an error kind
HasErrorKind ==
  /\ response[1].data # << >>
  /\ "error_type" \in DOMAIN response[1].data[1]

C13_FailureHasErrorKind ==
  ( /\ pc = "responded"
    /\ response[1].success = FALSE
    /\ submitted.class = "AgentCommand"
    /\ (ValidationFailure \/ ExecutionFailure) )
    => HasErrorKind

(***************************************************************************)
(* C14: execute_command lets no exception escape: whatever the command     *)
(* (one that fails validation, times out, cannot be launched, or is not an *)
(* AgentCommand object at all), the caller gets an AgentResponse.          *)
(***************************************************************************)
C14_NoExceptionEscapes ==
  /\ pc # "raised"
  /\ pc = "responded" => Len(response) = 1

\* execute_command was given a plain dict and answered with the response of its
\* exception handler
C14_Witness ==
  /\ pc = "responded"
  /\ submitted.class = "dict"
  /\ response = << AgentResponse(FALSE, "Error executing command",
                                 << [ error_type |-> "execution_error" ] >>) >>

(***************************************************************************)
(* C15: whenever a launched subprocess exceeds the timeout, on the raw     *)
(* shell path or on the project path, the response is success = false with *)
(* the error kind timeout.                                                 *)
(***************************************************************************)
C15_TimeoutReported ==
  \A k \in DOMAIN launched :
    launched[k].outcome = "timeout"
      => /\ pc = "responded"
         /\ response[1].success = FALSE
         /\ HasErrorKind
         /\ response[1].data[1].error_type = "timeout"

(***************************************************************************)
(* C16: the environment given to every subprocess is fixed: it holds the   *)
(* explicitly set variables and nothing else, so it is the same whatever   *)
(* the gateway process's own environment holds.                            *)
(***************************************************************************)
\* the variables _get_env sets explicitly
ExplicitEnvironment ==
  "PATH" :> "/usr/local/sbin:/usr/local/bin:/usr/sbin:/usr/bin:/sbin:/bin"
  @@ "NODE_ENV" :> "production"

C16_FixedEnvironment ==
  \A k \in DOMAIN launched : launched[k].env = ExplicitEnvironment

(***************************************************************************)
(* C17: when execute_command returns after a subprocess invocation, an     *)
(* audit record holding the original command, the launched text and the    *)
(* result has been handed to the audit sink for that invocation.           *)
(***************************************************************************)
C17_AuditedBeforeReturn ==
  pc = "responded"
    => \A k \in DOMAIN launched :
         /\ k \in DOMAIN audited
         /\ audited[k].command = submitted
         /\ audited[k].text = launched[k].cmd
         /\ audited[k].result = response[1]

(***************************************************************************)
(* C18: two update commands for the same project issued concurrently never *)
(* interleave their steps: the shell line of the second (cd, git pull, npm *)
(* install, pm2 restart) starts only after that of the first has ended.    *)
(***************************************************************************)
\* tasks a and b are updates of one project
SameUpdate(a, b) ==
  /\ a # b
  /\ tasks[a].action = "update"
  /\ tasks[b].action = "update"
  /\ tasks[a].project = tasks[b].project

C19_UnrelatedNotBlocked ==
  \A a, b \in DOMAIN tasks :
    ( /\ tasks[a].state = "running"
      /\ tasks[b].state = "pending"
      /\ tasks[a].project # tasks[b].project )
      => ENABLED StartTask(b)

(***************************************************************************)
(* C20: for the project logs action, the line count placed in the launched *)
(* process-manager command never exceeds a fixed maximum, whatever the     *)
(* caller supplies in parameters["lines"].  The specification names no     *)
(* maximum; the formula takes one of 100000 lines.                         *)
(***************************************************************************)
\* the text after "--lines " in a command text
LinesPlaced(cmd) ==
  LET flag == <<"-", "-", "l", "i", "n", "e", "s", " ">>
      at == Find(cmd, flag, 1)
  IN  SubSeq(cmd, at + Len(flag), Len(cmd))

\* the value of a decimal digit
DigitValue(c) ==
  CASE c = "0" -> 0 [] c = "1" -> 1 [] c = "2" -> 2 [] c = "3" -> 3 [] c = "4" -> 4
    [] c = "5" -> 5 [] c = "6" -> 6 [] c = "7" -> 7 [] c = "8" -> 8 [] c = "9" -> 9

\* the text is a decimal number
IsNumber(text) ==
  /\ text # << >>
  /\ \A k \in DOMAIN text :
       text[k] \in { "0", "1", "2", "3", "4", "5", "6", "7", "8", "9" }

RECURSIVE NumberValue(_)
\* the value of a decimal number
NumberValue(text) ==
  IF text = << >> THEN 0
  ELSE 10 * NumberValue(SubSeq(text, 1, Len(text) - 1)) + DigitValue(text[Len(text)])

C20_LinesClamped ==
  \A k \in DOMAIN launched :
    (submitted.command_type = "project" /\ submitted.action = "logs")
      => LET lines == LinesPlaced(launched[k].cmd)
         IN  IsNumber(lines) => NumberValue(lines) <= 100000

(***************************************************************************)
(* C21: a rejected validation leaves the command unchanged: whenever       *)
(* validate_command raises, command.parameters["command"] after the call   *)
(* equals its value before the call.                                       *)
(***************************************************************************)
C21_RejectionLeavesCommand ==
  \A k \in DOMAIN calls :
    calls[k].raised # NoError => calls[k].after = calls[k].before

(***************************************************************************)
(* C22: every path token of a command line that validation accepts is a    *)
(* safe or log directory itself or a descendant of one in the directory    *)
(* tree; a path that only shares a leading string with a safe directory (a *)
(* sibling whose name extends the safe directory's name) is not accepted.  *)
(***************************************************************************)
\* the normalised path is the directory dir or lies below it
WithinTree(path, dir) ==
  \/ path = dir
  \/ StartsWith(path, IF dir[Len(dir)] = "/" THEN dir ELSE dir \o << "/" >>)

\* the token's normalised path is a safe or log directory or a descendant of one
Descendant(token) ==
  LET path == abspath(expanduser(token))
  IN  \/ \E i \in DOMAIN safe_prefixes : WithinTree(path, safe_prefixes[i])
      \/ \E i \in DOMAIN log_prefixes : WithinTree(path, log_prefixes[i])

C22_AcceptedPathsDescend ==
  \A k \in DOMAIN calls :
    (OnListed(calls[k]) /\ calls[k].raised = NoError)
      => \A i \in DOMAIN calls[k].split.tokens :
           HasSep(calls[k].split.tokens[i]) => Descendant(calls[k].split.tokens[i])

(***************************************************************************)
(* C23: in the Telegram bot, whatever the order of an allowed user's       *)
(* messages and button presses, the command handle_callback executes for a *)
(* pressed button is the command of the suggestion whose description that  *)
(* button displays, and each displayed suggestion list leads to at most    *)
(* one command execution.                                                  *)
(***************************************************************************)
\* the suggestion displayed on the button an execution came from
Displayed(e) == keyboards[e.keyboard].suggestions[e.index]

C23_ButtonRunsDisplayed ==
  /\ \A k \in DOMAIN executed : executed[k].command = Displayed(executed[k]).command
  /\ \A j, k \in DOMAIN executed :
       j # k => executed[j].keyboard # executed[k].keyboard
====
